---------------------------- MODULE Spec2Model ----------------------------
(***************************************************************************)
(* Model of the pendot "Dotter" effect (src/pendot/effect/dotter.py) and   *)
(* of the font driver that runs it (src/pendot/__init__.py).               *)
(*                                                                         *)
(* Python floats are modelled as exact rationals <<n, d>> (d > 0, lowest   *)
(* terms), so every comparison of the code is decided exactly.  Paths are  *)
(* open paths of LINE nodes whose segments are horizontal or vertical, so  *)
(* that segment lengths are rational; cubic segments are outside the       *)
(* model.                                                                  *)
(***************************************************************************)
EXTENDS Integers, Sequences, FiniteSets, TLC

VARIABLES
    font,      \* the document: its masters and its layers (transform_font)
    results,   \* transform_font's `results` dict, as a sequence of [layer, shapes]
    pc,        \* position of the running operation
    raised,    \* the exception that left the operation ("" when none)
    paths,     \* the GSPath list an operation works on
    effect,    \* the Dotter effect object: its preview flag and its instance
    params,    \* the resolved parameter dict of the Dotter effect
    centers,   \* the `centers` list
    out        \* what the operation returned

vars == <<font, results, pc, raised, paths, effect, params, centers, out>>

None == "None"

\* no effect object: the operation at hand is a module-level function
NoEffect == None

\* ------------------------------------------------------------- rationals

RECURSIVE GCD(_, _)
GCD(a, b) == IF b = 0 THEN a ELSE GCD(b, a % b)

Abs(i) == IF i < 0 THEN -i ELSE i

\* n/d in lowest terms, d > 0
Rat(n, d) ==
    LET s == IF d < 0 THEN -1 ELSE 1
        g == GCD(Abs(n), Abs(d))
    IN <<(s * n) \div g, (s * d) \div g>>

R(i) == <<i, 1>>
RAdd(a, b) == Rat(a[1] * b[2] + b[1] * a[2], a[2] * b[2])
RNeg(a) == <<-a[1], a[2]>>
RSub(a, b) == RAdd(a, RNeg(b))
RMul(a, b) ==
    LET x == Rat(a[1], b[2])
        y == Rat(b[1], a[2])
    IN <<x[1] * y[1], x[2] * y[2]>>
\* b # 0
RDiv(a, b) == RMul(a, Rat(b[2], b[1]))
RAbs(a) == <<Abs(a[1]), a[2]>>
\* compared by integer part first, so that large and fine values can meet
RLt(a, b) ==
    LET fa == a[1] \div a[2]
        fb == b[1] \div b[2]
    IN IF fa # fb THEN fa < fb
       ELSE (a[1] % a[2]) * b[2] < (b[1] % b[2]) * a[2]
RLe(a, b) == a = b \/ RLt(a, b)
RIsInt(a) == a[2] = 1
\* Python's int(): rounds toward zero
RTrunc(a) == IF a[1] >= 0 THEN a[1] \div a[2] ELSE -((-a[1]) \div a[2])
RMax(a, b) == IF RLt(a, b) THEN b ELSE a

\* a sequence given as a function, written out element by element
Listed(s) == s \o <<>>

\* F applied to the value of v, v being evaluated once (a local variable
\* assigned once and read many times)
Bind(v, F(_)) == CHOOSE r \in { F(x) : x \in {v} } : TRUE

\* ------------------------------------------------------------- dicts

EmptyDict == [k \in {} |-> None]
DictSet(d, k, v) == [x \in (DOMAIN d) \cup {k} |-> IF x = k THEN v ELSE d[x]]
DictDel(d, k) == [x \in (DOMAIN d) \ {k} |-> d[x]]
\* truthiness of d.get(k) for a dict of booleans: None (missing) is falsy
TruthyGet(d, k) == k \in DOMAIN d /\ d[k] = TRUE
\* truthiness of a dict: empty is falsy
TruthyDict(d) == DOMAIN d # {}
\* truthiness of the host's userData[k], a dict or None when k is missing
TruthyItem(d, k) == k \in DOMAIN d /\ TruthyDict(d[k])

\* ------------------------------------------------------------- nodes

KEY == "co.uk.corvelsoftware.Dotter"

LINE == "line"

\* GSNode(position, type): a fresh node has empty userData
GSNode(position, type) ==
    [position |-> position, type |-> type, userData |-> EmptyDict]

Pt(x, y) == <<R(x), R(y)>>

set_locally_forced(node) ==
    LET ud == IF KEY \notin DOMAIN node.userData
              THEN DictSet(node.userData, KEY, EmptyDict)
              ELSE node.userData
    IN [node EXCEPT !.userData = DictSet(ud, KEY, DictSet(ud[KEY], "locally_forced", TRUE))]

\* The guard reads userData["KEY"], the literal string, where every other
\* access uses the constant KEY.  The host's userData answers None for a key
\* it does not hold.
clear_locally_forced(node) ==
    IF KEY \in DOMAIN node.userData /\ TruthyItem(node.userData, "KEY")
    THEN LET lit == node.userData["KEY"]
             ud1 == IF "locally_forced" \in DOMAIN lit
                    THEN DictSet(node.userData, KEY,
                                 DictDel(node.userData[KEY], "locally_forced"))
                    ELSE node.userData
             ud2 == IF ~TruthyDict(ud1[KEY]) THEN DictDel(ud1, KEY) ELSE ud1
         IN [node EXCEPT !.userData = ud2]
    ELSE node

isForced(node) ==
    KEY \in DOMAIN node.userData
    /\ (TruthyGet(node.userData[KEY], "forced")
        \/ TruthyGet(node.userData[KEY], "locally_forced"))

\* the persistent, designer-set annotation alone
hasForced(node) ==
    KEY \in DOMAIN node.userData /\ TruthyGet(node.userData[KEY], "forced")

hasLocallyForced(node) ==
    KEY \in DOMAIN node.userData
    /\ TruthyGet(node.userData[KEY], "locally_forced")

\* ------------------------------------------------------------- splitAtForcedNode

\* A GSPath: its node list and its closed flag
GSPath(nodes, closed) == [nodes |-> nodes, closed |-> closed]

\* faulty variant: the run after a forced node starts empty
RECURSIVE SplitFromNoRestart(_, _, _, _)
SplitFromNoRestart(nodes, i, new_path, yielded) ==
    IF i > Len(nodes) THEN Append(yielded, GSPath(new_path, FALSE))
    ELSE LET n == nodes[i]
             grown == Append(new_path, GSNode(n.position, n.type))
         IN IF isForced(n)
            THEN SplitFromNoRestart(nodes, i + 1, <<>>,
                                    Append(yielded, GSPath(grown, FALSE)))
            ELSE SplitFromNoRestart(nodes, i + 1, grown, yielded)

splitAtForcedNode_NoRestart(path) == SplitFromNoRestart(path.nodes, 1, <<>>, <<>>)

\* the loop of splitAtForcedNode from node i on, new_path being the run under
\* construction and yielded the runs yielded so far
RECURSIVE SplitFrom(_, _, _, _)
SplitFrom(nodes, i, new_path, yielded) ==
    IF i > Len(nodes) THEN Append(yielded, GSPath(new_path, FALSE))
    ELSE LET n == nodes[i]
             grown == Append(new_path, GSNode(n.position, n.type))
         IN IF isForced(n)
            THEN SplitFrom(nodes, i + 1, <<GSNode(n.position, n.type)>>,
                           Append(yielded, GSPath(grown, FALSE)))
            ELSE SplitFrom(nodes, i + 1, grown, yielded)

\* every run the generator yields, in order
splitAtForcedNode(path) == SplitFrom(path.nodes, 1, <<>>, <<>>)

\* ------------------------------------------------------------- inputs

MaxNodes == 4

\* the userData a node can carry when a pass starts or while it runs
UserDatas ==
    { EmptyDict,
      [k \in {KEY} |-> EmptyDict],
      [k \in {KEY} |-> [f \in {"forced"} |-> TRUE]],
      [k \in {KEY} |-> [f \in {"locally_forced"} |-> TRUE]] }

\* straight paths along the x axis, node i at x = i - 1
SegmenterPaths ==
    UNION { { GSPath([i \in 1..n |-> [position |-> Pt(i - 1, 0), type |-> LINE,
                                       userData |-> ud[i]]], FALSE) :
              ud \in [1..n -> UserDatas] } : n \in 1..MaxNodes }

\* ------------------------------------------------------------- Segmenter

InitSegmenter ==
    /\ font = <<>>
    /\ results = <<>>
    /\ pc = "start"
    /\ raised = ""
    /\ paths \in { <<p>> : p \in SegmenterPaths }
    /\ effect = NoEffect
    /\ params = EmptyDict
    /\ centers = <<>>
    /\ out = <<>>

\* for subpath in splitAtForcedNode(path): the whole generator is consumed
SplitAtForcedNode ==
    /\ pc = "start"
    /\ out' = splitAtForcedNode(paths[1])
    /\ pc' = "done"
    /\ UNCHANGED <<font, results, raised, paths, effect, params, centers>>

NextSegmenter == SplitAtForcedNode

SpecSegmenter == InitSegmenter /\ [][NextSegmenter]_vars


\* the indices of the forced nodes of the input path, and of its forced
\* interior nodes
ForcedIdx == { i \in 1..Len(paths[1].nodes) : isForced(paths[1].nodes[i]) }
InteriorForcedIdx == ForcedIdx \ {1, Len(paths[1].nodes)}
\* the n-th smallest element of a set of indices
NthOf(S, n) == CHOOSE i \in S : Cardinality({ j \in S : j < i }) = n - 1
\* a node sequence, read as positions and types only
Bare(nodes) == [i \in 1..Len(nodes) |-> <<nodes[i].position, nodes[i].type>>]

\* C5 (as stated): a path with k forced interior nodes yields exactly k+1
\* runs, whatever the forcing state of its first and last node.
C5_Original ==
    pc = "done" => Len(out) = Cardinality(InteriorForcedIdx) + 1

\* C5 (amended): the runs number one more than the forced nodes of the path,
\* first and last node included; of these, on a path of two or more nodes,
\* exactly k+1 have two or more nodes (k the forced interior nodes); every run
\* but the last ends at and includes its forcing node and the next run starts
\* with that node; the last run ends at the path's last node; the runs, each
\* without its first node after the first run, concatenate to the path; with
\* no forced node the one run equals the whole path.
C5_Runs ==
    pc = "done" =>
        LET nodes == paths[1].nodes
            n == Len(nodes)
        IN /\ Len(out) = Cardinality(ForcedIdx) + 1
           /\ n >= 2 =>
                Cardinality({ r \in 1..Len(out) : Len(out[r].nodes) >= 2 })
                    = Cardinality(InteriorForcedIdx) + 1
           /\ \A r \in 1..(Len(out) - 1) :
                LET f == NthOf(ForcedIdx, r)
                    first == IF r = 1 THEN 1 ELSE NthOf(ForcedIdx, r - 1)
                IN /\ Bare(out[r].nodes) = Bare(SubSeq(nodes, first, f))
                   /\ out[r + 1].nodes # <<>>
                   /\ Bare(<<out[r + 1].nodes[1]>>) = Bare(<<nodes[f]>>)
           /\ LET last == out[Len(out)].nodes
              IN last # <<>> /\ Bare(<<last[Len(last)]>>) = Bare(<<nodes[n]>>)
           /\ ForcedIdx = {} => Len(out) = 1 /\ Bare(out[1].nodes) = Bare(nodes)
           /\ \A r \in 1..Len(out) : out[r].closed = FALSE

\* two forced interior nodes, unforced ends: three runs
C5_Witness ==
    /\ pc = "done"
    /\ Cardinality(InteriorForcedIdx) = 2
    /\ Cardinality(ForcedIdx) = 2
    /\ Len(out) = 3

\* ------------------------------------------------------------- geometry

\* GSPath.segments of an open path of LINE nodes: one line per pair of
\* consecutive nodes, none for a path of fewer than two nodes
segments(path) ==
    Listed([i \in 1..(Len(path.nodes) - 1) |->
                <<path.nodes[i].position, path.nodes[i + 1].position>>])

\* Euclidean distance of two points that share a coordinate (every pair of
\* points measured along or against a horizontal or vertical line)
distance(a, b) == RAdd(RAbs(RSub(a[1], b[1])), RAbs(RSub(a[2], b[2])))

\* arc length of a line segment, which its chord gives exactly
arclength(seg) == distance(seg[1], seg[2])

RECURSIVE SumLengths(_, _)
SumLengths(segs, n) ==
    IF n = 0 THEN R(0) ELSE RAdd(SumLengths(segs, n - 1), arclength(segs[n]))

pathLength(path) == SumLengths(segments(path), Len(segments(path)))

\* fontTools linePointAtT
linePointAtT(pt1, pt2, t) ==
    << RAdd(RMul(pt1[1], RSub(R(1), t)), RMul(pt2[1], t)),
       RAdd(RMul(pt1[2], RSub(R(1), t)), RMul(pt2[2], t)) >>

\* the line branch: len(seg) == 2
splitSegment(seg, t) ==
    LET midpoint == linePointAtT(seg[1], seg[2], t)
    IN << <<seg[1], midpoint>>, <<midpoint, seg[2]>> >>

\* ------------------------------------------------------------- Python dicts, in insertion order

\* A dict built by the assignments e[1], e[2], ... (each <<key, value>>), as
\* the sequence of its items: a key keeps the place of its first assignment
\* and the value of its last.
DictOf(e) ==
    LET n == Len(e)
        firsts == SelectSeq([i \in 1..n |-> i],
                            LAMBDA i : \A j \in 1..(i - 1) : e[j][1] # e[i][1])
        lastOf(i) == CHOOSE j \in i..n :
                        /\ e[j][1] = e[i][1]
                        /\ \A m \in (j + 1)..n : e[m][1] # e[i][1]
    IN IF Cardinality({ e[i][1] : i \in 1..n }) = n
       THEN e   \* no key is assigned twice
       ELSE Listed([x \in 1..Len(firsts) |-> <<e[firsts[x]][1], e[lastOf(firsts[x])][2]>>])

Keys(d) == { d[i][1] : i \in 1..Len(d) }
Item(d, k) == d[CHOOSE i \in 1..Len(d) : d[i][1] = k][2]

\* {v: k for k, v in d.items()}
Inverted(d) == DictOf(Listed([i \in 1..Len(d) |-> <<d[i][2], d[i][1]>>]))

RMinOf(S) == CHOOSE k \in S : \A j \in S : RLe(k, j)
RMaxOf(S) == CHOOSE k \in S : \A j \in S : RLe(j, k)

\* fontTools.varLib.models.piecewiseLinearMap
piecewiseLinearMap(v, mapping) ==
    LET keys == Keys(mapping)
    IN IF keys = {} THEN v
       ELSE IF v \in keys THEN Item(mapping, v)
       ELSE IF RLt(v, RMinOf(keys))
            THEN RSub(RAdd(v, Item(mapping, RMinOf(keys))), RMinOf(keys))
       ELSE IF RLt(RMaxOf(keys), v)
            THEN RSub(RAdd(v, Item(mapping, RMaxOf(keys))), RMaxOf(keys))
       ELSE LET a == RMaxOf({ k \in keys : RLt(k, v) })
                b == RMinOf({ k \in keys : RLt(v, k) })
                va == Item(mapping, a)
                vb == Item(mapping, b)
            IN RAdd(va, RDiv(RMul(RSub(vb, va), RSub(v, a)), RSub(b, a)))

\* ------------------------------------------------------------- findCenters

LIMIT == 100

Center(pos, forced) == [pos |-> pos, forced |-> forced]

\* The assignments to x_lut, y_lut and distance_lut, in order: each is a row
\* <<global_t, x, y, lengthHere>>, the three dicts being written under the
\* same keys.
LutRows(segs, plen) ==
    LET nsegs == Len(segs)
        last == segs[nsegs]
        row(i) ==
            IF i = 1 THEN <<R(0), segs[1][1][1], segs[1][1][2], R(0)>>
            ELSE IF i = 2 THEN <<R(1), last[2][1], last[2][2], plen>>
            ELSE LET s == ((i - 3) \div (LIMIT - 1)) + 1
                     t == ((i - 3) % (LIMIT - 1)) + 1
                     local_t == Rat(t, LIMIT)
                     left == splitSegment(segs[s], local_t)[1]
                     lengthHere == RAdd(SumLengths(segs, s - 1), arclength(left))
                     global_t == RDiv(lengthHere, plen)
                 IN <<global_t, left[2][1], left[2][2], lengthHere>>
    IN Listed([i \in 1..(2 + nsegs * (LIMIT - 1)) |-> row(i)])

\* faulty variant: the residue with its sign reversed
Solver_ResidueSign(plen, p) ==
    LET dotsize == R(p.dotSize)
        orig_preferred_step == RAdd(dotsize, R(p.dotSpacing))
        dotcount == RDiv(plen, orig_preferred_step)
        residue == RMul(RSub(dotcount, R(RTrunc(dotcount))), orig_preferred_step)
        adjustment == RDiv(residue, R(RTrunc(RMax(dotcount, R(1)))))
    IN IF p.dotSpacing = 0
       THEN [error |-> "ZeroDivisionError", adjusted |-> FALSE,
             adjustment |-> adjustment, preferred_step |-> orig_preferred_step]
       ELSE IF RLe(RAbs(RDiv(adjustment, R(p.dotSpacing))), Rat(p.flexPercent, 100))
       THEN [error |-> "", adjusted |-> TRUE, adjustment |-> adjustment,
             preferred_step |-> RSub(orig_preferred_step, adjustment)]
       ELSE [error |-> "", adjusted |-> FALSE, adjustment |-> adjustment,
             preferred_step |-> orig_preferred_step]

\* The spacing solver (lines 156-170).  dotSpacing = 0 makes the tolerance
\* test divide by zero.
Solver(plen, p) ==
    LET dotsize == R(p.dotSize)
        orig_preferred_step == RAdd(dotsize, R(p.dotSpacing))
        dotcount == RDiv(plen, orig_preferred_step)
        residue == RMul(RSub(R(RTrunc(dotcount)), dotcount), orig_preferred_step)
        adjustment == RDiv(residue, R(RTrunc(RMax(dotcount, R(1)))))
    IN IF p.dotSpacing = 0
       THEN [error |-> "ZeroDivisionError", adjusted |-> FALSE,
             adjustment |-> adjustment, preferred_step |-> orig_preferred_step]
       ELSE IF RLe(RAbs(RDiv(adjustment, R(p.dotSpacing))), Rat(p.flexPercent, 100))
       THEN [error |-> "", adjusted |-> TRUE, adjustment |-> adjustment,
             preferred_step |-> RSub(orig_preferred_step, adjustment)]
       ELSE [error |-> "", adjusted |-> FALSE, adjustment |-> adjustment,
             preferred_step |-> orig_preferred_step]

\* the while loop of lines 177-182
RECURSIVE PlaceFrom(_, _, _, _, _, _, _)
PlaceFrom(start, preferred_step, plen, x_lut, y_lut, inverted_distance_lut, cs) ==
    IF RLt(start, plen)
    THEN LET this_t == piecewiseLinearMap(start, inverted_distance_lut)
             x == piecewiseLinearMap(this_t, x_lut)
             y == piecewiseLinearMap(this_t, y_lut)
         IN PlaceFrom(RAdd(start, preferred_step), preferred_step, plen, x_lut, y_lut,
                      inverted_distance_lut, Append(cs, Center(<<x, y>>, FALSE)))
    ELSE cs

\* column c of the rows, as the assignments to one dict
Column(rows, c) == Listed([i \in 1..Len(rows) |-> <<rows[i][1], rows[i][c]>>])

\* findCenters(path, params, centers, name): the centers list after the call,
\* the exception that left it, and the solver's result when it was reached
findCenters(path, p, cs) ==
    Bind(<<segments(path), pathLength(path)>>, LAMBDA sp :
      LET segs == sp[1]
          plen == sp[2]
      IN IF Len(segs) = 0 \/ plen = R(0)
         THEN [raised |-> "", centers |-> cs, solved |-> FALSE,
               adjusted |-> FALSE, preferred_step |-> R(0)]
         ELSE Bind(LutRows(segs, plen), LAMBDA rows :
              Bind(<< DictOf(Column(rows, 2)), DictOf(Column(rows, 3)),
                      DictOf(Column(rows, 4)) >>, LAMBDA luts :
              Bind(<< Inverted(luts[3]), Solver(plen, p) >>, LAMBDA is :
                LET x_lut == luts[1]
                    y_lut == luts[2]
                    inverted_distance_lut == is[1]
                    sol == is[2]
                    ends == cs \o << Center(segs[1][1], TRUE),
                                     Center(segs[Len(segs)][2], TRUE) >>
                IN IF sol.error # ""
                   THEN [raised |-> sol.error, centers |-> cs, solved |-> TRUE,
                         adjusted |-> FALSE, preferred_step |-> R(0)]
                   ELSE [raised |-> "", solved |-> TRUE, adjusted |-> sol.adjusted,
                         preferred_step |-> sol.preferred_step,
                         centers |-> PlaceFrom(sol.preferred_step, sol.preferred_step,
                                               plen, x_lut, y_lut,
                                               inverted_distance_lut, ends)]))))

\* ------------------------------------------------------------- Center Placer

MaxLen == 6
MaxDotSize == 2
MaxDotSpacing == 3
FlexPercents == {0, 25, 100}

XPath(xs) == GSPath([i \in 1..Len(xs) |-> GSNode(Pt(xs[i], 0), LINE)], FALSE)

\* straight runs from the origin along the x axis: a single node, two nodes
\* (coincident when the length is 0), three nodes
StraightRuns ==
    { XPath(<<0>>) }
    \cup { XPath(<<0, l>>) : l \in 0..MaxLen }
    \cup { XPath(<<0, q[1], q[2]>>) :
                q \in { r \in (1..MaxLen) \X (2..MaxLen) : r[1] < r[2] } }

\* the run of the worked example: length 100, dotSize 10, dotSpacing 10
ExampleRun == XPath(<<0, 100>>)
ExampleParams == [dotSize |-> 10, dotSpacing |-> 10, flexPercent |-> 25]

SolverParams ==
    [dotSize : 1..MaxDotSize, dotSpacing : 0..MaxDotSpacing, flexPercent : FlexPercents]

InitCenters ==
    /\ font = <<>>
    /\ results = <<>>
    /\ pc = "start"
    /\ raised = ""
    /\ \/ paths \in { <<p>> : p \in StraightRuns } /\ params \in SolverParams
       \/ paths = <<ExampleRun>> /\ params = ExampleParams
    /\ effect = NoEffect
    /\ centers = <<>>
    /\ out = [solved |-> FALSE, adjusted |-> FALSE, preferred_step |-> R(0)]

FindCenters ==
    /\ pc = "start"
    /\ \E r \in {findCenters(paths[1], params, centers)} :
          /\ centers' = r.centers
          /\ raised' = r.raised
          /\ out' = [solved |-> r.solved, adjusted |-> r.adjusted,
                     preferred_step |-> r.preferred_step]
    /\ pc' = "done"
    /\ UNCHANGED <<font, results, paths, effect, params>>

NextCenters == FindCenters

SpecCenters == InitCenters /\ [][NextCenters]_vars

\* the run length L of the run findCenters was given, and the values the
\* claims name
RunLength == pathLength(paths[1])
PreferredStep == R(params.dotSize + params.dotSpacing)
DotCount == RDiv(RunLength, PreferredStep)
Frac(q) == RSub(q, R(q[1] \div q[2]))
\* within 1e-6 of an integer
NearInteger(q) ==
    \/ RLe(Frac(q), Rat(1, 1000000))
    \/ RLe(RSub(R(1), Frac(q)), Rat(1, 1000000))

\* C4 (as stated): for every L > 0, whenever the adjusted step is used,
\* L / (preferredStep - adjustment) is within 1e-6 of an integer, runs
\* shorter than one preferred step included.
C4_Original ==
    (pc = "done" /\ out.solved /\ out.adjusted)
        => NearInteger(RDiv(RunLength, out.preferred_step))

\* C4 (amended): whenever the adjusted step is used and the run is at least
\* one preferred step long (dotCount >= 1), L divided by the realized step is
\* the integer truncate(dotCount).
C4_AdjustedStepDivides ==
    (pc = "done" /\ out.solved /\ out.adjusted /\ RLe(R(1), DotCount))
        => /\ NearInteger(RDiv(RunLength, out.preferred_step))
           /\ RDiv(RunLength, out.preferred_step) = R(RTrunc(DotCount))

\* a run of one and a half preferred steps whose step was stretched
C4_Witness ==
    /\ pc = "done" /\ out.solved /\ out.adjusted
    /\ RLt(R(1), DotCount) /\ ~RIsInt(DotCount)
    /\ out.preferred_step # PreferredStep

\* the centers the Center Placer is to emit for a straight run of length L
\* from x0 along the x axis with realized step `step`: the two ends, forced,
\* then one unforced center at each distance k * step < L
ExpectedCenters(step) ==
    LET x0 == paths[1].nodes[1].position[1]
        n == Cardinality({ k \in 1..(RTrunc(RunLength) + 1) :
                            RLt(RMul(R(k), step), RunLength) })
    IN << Center(paths[1].nodes[1].position, TRUE),
          Center(paths[1].nodes[Len(paths[1].nodes)].position, TRUE) >>
       \o [k \in 1..n |-> Center(<<RAdd(x0, RMul(R(k), step)), R(0)>>, FALSE)]

\* C6 (as stated): a run of length 0 gets no center and the solver is not
\* evaluated; a run of length L > 0 gets one forced center at each end and
\* one unforced center per distance k * realizedStep < L, nothing else; the
\* run of length 100 with dotSize 10 and dotSpacing 10 gets 6 centers.
C6_CentersOfRun ==
    pc = "done" =>
        /\ RunLength = R(0) => centers = <<>> /\ ~out.solved /\ raised = ""
        /\ RunLength # R(0) =>
              /\ raised = ""
              /\ centers = ExpectedCenters(out.preferred_step)
        /\ (paths[1] = ExampleRun /\ params = ExampleParams) =>
              [i \in 1..Len(centers) |-> centers[i].pos[1]]
                  = <<R(0), R(100), R(20), R(40), R(60), R(80)>>

\* the same, for the calls the solver returns from
C6_WhenSolverReturns ==
    (pc = "done" /\ raised = "") =>
        /\ RunLength = R(0) => centers = <<>> /\ ~out.solved
        /\ RunLength # R(0) => centers = ExpectedCenters(out.preferred_step)
        /\ (paths[1] = ExampleRun /\ params = ExampleParams) =>
              [i \in 1..Len(centers) |-> centers[i].pos[1]]
                  = <<R(0), R(100), R(20), R(40), R(60), R(80)>>

\* C10 (as stated): for every L > 0 and every dotSize > 0, dotSpacing >= 0,
\* 0 <= flexPercent <= 100 the solver completes without a division by zero
\* and yields a realized step, after which centers are emitted.
C10_SolverCompletes ==
    (pc = "done" /\ RunLength # R(0)) =>
        /\ raised = ""
        /\ out.solved
        /\ RLe(PreferredStep, out.preferred_step)
        /\ ~out.adjusted => out.preferred_step = PreferredStep
        /\ Len(centers) >= 2

\* ------------------------------------------------------------- centers_to_paths

\* squared Euclidean distance, for points in general position
distanceSq(a, b) ==
    LET dx == RSub(a[1], b[1])
        dy == RSub(a[2], b[2])
    IN RAdd(RMul(dx, dx), RMul(dy, dy))

\* distance(a, b) < size, decided on the squares
distanceLt(a, b, size) ==
    RLt(R(0), size) /\ RLt(distanceSq(a, b), RMul(size, size))

\* faulty variant: the candidates are taken in generation order, unsorted
sorted_Unsorted(cs) == cs

\* faulty variant: forced first, but each group in reverse generation order
sorted_Reversed(cs) ==
    LET rev(s) == [i \in 1..Len(s) |-> s[Len(s) + 1 - i]]
    IN rev(SelectSeq(cs, LAMBDA c : c.forced)) \o rev(SelectSeq(cs, LAMBDA c : ~c.forced))

\* x inserted into a list sorted by descending key, behind its equals
RECURSIVE InsertByForced(_, _)
InsertByForced(x, s) ==
    IF s = <<>> THEN <<x>>
    ELSE IF x.forced /\ ~s[1].forced THEN <<x>> \o s
    ELSE <<s[1]>> \o InsertByForced(x, Tail(s))

RECURSIVE SortFrom(_, _, _)
SortFrom(cs, i, acc) ==
    IF i > Len(cs) THEN acc ELSE SortFrom(cs, i + 1, InsertByForced(cs[i], acc))

\* sorted(centers, key=lambda pt: pt.forced, reverse=True): a stable sort,
\* descending by the forced flag
sorted(cs) == SortFrom(cs, 1, <<>>)

\* the loop of lines 335-343 from candidate i of the sorted list on
RECURSIVE FilterFrom(_, _, _, _)
FilterFrom(s, i, newcenters, dotSize) ==
    IF i > Len(s) THEN newcenters
    ELSE LET c == s[i]
             ok == \A n \in 1..Len(newcenters) :
                      ~distanceLt(c.pos, newcenters[n], R(dotSize))
         IN FilterFrom(s, i + 1,
                       IF ok THEN Append(newcenters, c.pos) ELSE newcenters, dotSize)

\* newcenters of centers_to_paths (lines 332-345)
newcenters(cs, p) ==
    IF p.preventOverlaps
    THEN FilterFrom(sorted(cs), 1, <<>>, p.dotSize)
    ELSE [i \in 1..Len(cs) |-> cs[i].pos]

makeCircle(center, radius) == [shape |-> "circle", center |-> center, radius |-> radius]

GSComponent(name, position, scale) ==
    [shape |-> "component", name |-> name, center |-> position, scale |-> scale]

\* centers_to_paths(self, centers, params): the shapes returned
centers_to_paths(self, cs, p) ==
    LET nc == newcenters(cs, p)
        component_size == self.instance.customParameters.dotSize
    IN IF self.preview
       THEN [i \in 1..Len(nc) |-> makeCircle(nc[i], Rat(p.dotSize, 2))]
       ELSE [i \in 1..Len(nc) |->
                GSComponent("_dot", nc[i],
                    IF p.dotSize # component_size
                    THEN <<Rat(p.dotSize, component_size), Rat(p.dotSize, component_size)>>
                    ELSE <<R(1), R(1)>>)]

\* ------------------------------------------------------------- Overlap Resolver

MaxCenters == 3
MaxCoord == 2
DotSizes == {1, 2}

Candidates == [pos : { Pt(x, y) : x \in 0..MaxCoord, y \in 0..1 }, forced : BOOLEAN]

CandidateLists == UNION { [1..n -> Candidates] : n \in 0..MaxCenters }

Effects ==
    { [preview |-> TRUE, instance |-> [name |-> "Regular", customParameters |-> [dotSize |-> 2]]],
      [preview |-> FALSE, instance |-> [name |-> "Regular", customParameters |-> [dotSize |-> 2]]] }

InitResolver ==
    /\ font = <<>>
    /\ results = <<>>
    /\ pc = "start"
    /\ raised = ""
    /\ paths = <<>>
    /\ effect \in Effects
    /\ params \in [dotSize : DotSizes, preventOverlaps : BOOLEAN]
    /\ centers \in CandidateLists
    /\ out = <<>>

CentersToPaths ==
    /\ pc = "start"
    /\ out' = centers_to_paths(effect, centers, params)
    /\ pc' = "done"
    /\ UNCHANGED <<font, results, raised, paths, effect, params, centers>>

NextResolver == CentersToPaths

SpecResolver == InitResolver /\ [][NextResolver]_vars

\* the positions of the shapes returned
OutPos == [i \in 1..Len(out) |-> out[i].center]
\* the candidates, forced ones first, generation order kept in each group
Partitioned ==
    SelectSeq(centers, LAMBDA c : c.forced) \o SelectSeq(centers, LAMBDA c : ~c.forced)
\* the elements of s at the indices in A, in order
Picked(s, A) == SelectSeq([i \in 1..Len(s) |-> <<i, s[i]>>], LAMBDA e : e[1] \in A)
TooClose(a, b) == distanceLt(a.pos, b.pos, R(params.dotSize))

C3_GreedySelection ==
    (pc = "done" /\ params.preventOverlaps) =>
        \E A \in SUBSET (1..Len(Partitioned)) :
            /\ \A i \in 1..Len(Partitioned) :
                  i \in A <=> \A j \in A : j < i => ~TooClose(Partitioned[j], Partitioned[i])
            /\ OutPos = [n \in 1..Cardinality(A) |-> Picked(Partitioned, A)[n][2].pos]
            /\ \A i, j \in A :
                  i # j => \/ ~TooClose(Partitioned[i], Partitioned[j])
                           \/ Partitioned[i].forced
                           \/ Partitioned[j].forced

\* three unforced candidates in a row, each closer than dotSize to the next:
\* the middle one is discarded, the outer two are accepted
C3_Witness ==
    /\ pc = "done" /\ params.preventOverlaps
    /\ Len(centers) = 3
    /\ \A i \in 1..3 : ~centers[i].forced
    /\ TooClose(centers[1], centers[2]) /\ TooClose(centers[2], centers[3])
    /\ ~TooClose(centers[1], centers[3])
    /\ OutPos = <<centers[1].pos, centers[3].pos>>

\* ------------------------------------------------------------- intersections

\* GSPath.bounds: the bounding box of the nodes
bounds(path) ==
    LET xs == { path.nodes[i].position[1] : i \in 1..Len(path.nodes) }
        ys == { path.nodes[i].position[2] : i \in 1..Len(path.nodes) }
    IN [origin |-> [x |-> RMinOf(xs), y |-> RMinOf(ys)],
        size |-> [width |-> RSub(RMaxOf(xs), RMinOf(xs)),
                  height |-> RSub(RMaxOf(ys), RMinOf(ys))]]

boundsIntersect(bounds1, bounds2) ==
    /\ RLe(bounds1.origin.x, RAdd(bounds2.origin.x, bounds2.size.width))
    /\ RLe(bounds2.origin.x, RAdd(bounds1.origin.x, bounds1.size.width))
    /\ RLe(bounds1.origin.y, RAdd(bounds2.origin.y, bounds2.size.height))
    /\ RLe(bounds2.origin.y, RAdd(bounds1.origin.y, bounds1.size.height))

\* fontTools _line_t_of_pt
line_t_of_pt(s, e, pt) ==
    IF s = e THEN R(-1)
    ELSE IF RLt(RAbs(RSub(s[2], e[2])), RAbs(RSub(s[1], e[1])))
         THEN RDiv(RSub(pt[1], s[1]), RSub(e[1], s[1]))
         ELSE RDiv(RSub(pt[2], s[2]), RSub(e[2], s[2]))

Intersection(pt, t1, t2) == [pt |-> pt, t1 |-> t1, t2 |-> t2]

\* fontTools lineLineIntersections on the lines through s1,e1 and s2,e2; the
\* ZeroDivisionError of two vertical lines on one x is the one findIntersections
\* catches
lineLineIntersections(s1, e1, s2, e2) ==
    LET hit(pt) == <<Intersection(pt, line_t_of_pt(s1, e1, pt), line_t_of_pt(s2, e2, pt))>>
        slope12 == RDiv(RSub(e1[2], s1[2]), RSub(e1[1], s1[1]))
        slope34 == RDiv(RSub(e2[2], s2[2]), RSub(e2[1], s2[1]))
    IN IF s2[1] = e2[1] /\ s1[1] = e1[1] /\ s1[1] # s2[1] THEN <<>>
       ELSE IF s2[2] = e2[2] /\ s1[2] = e1[2] /\ s1[2] # s2[2] THEN <<>>
       ELSE IF s2 = e2 \/ s1 = e1 THEN <<>>
       ELSE IF e1[1] = s1[1]
            THEN IF e2[1] = s2[1] THEN "ZeroDivisionError"
                 ELSE hit(<<s1[1], RAdd(RMul(slope34, RSub(s1[1], s2[1])), s2[2])>>)
       ELSE IF s2[1] = e2[1]
            THEN hit(<<s2[1], RAdd(RMul(slope12, RSub(s2[1], s1[1])), s1[2])>>)
       ELSE IF slope12 = slope34 THEN <<>>
       ELSE LET x == RDiv(RAdd(RSub(RSub(RMul(slope12, s1[1]), s1[2]),
                                        RMul(slope34, s2[1])), s2[2]),
                               RSub(slope12, slope34))
                y == RAdd(RMul(slope12, RSub(x, s1[1])), s1[2])
                sameSide(a, b, o) ==
                    ~(/\ RLe(RMul(RSub(a[1], o[1]), RSub(b[1], o[1])), R(0))
                      /\ RLe(RMul(RSub(a[2], o[2]), RSub(b[2], o[2])), R(0)))
            IN IF sameSide(<<x, y>>, e1, s1) /\ sameSide(<<x, y>>, s2, e2)
               THEN hit(<<x, y>>) ELSE <<>>

findIntersections(seg1, seg2) ==
    LET r == lineLineIntersections(seg1[1], seg1[2], seg2[1], seg2[2])
    IN IF r = "ZeroDivisionError" THEN <<>> ELSE r

\* ------------------------------------------------------------- insertPointInPathUnlessThere

TICKS == 1000
MIN_DIST == 100000000

\* the inner loop over t in lo..hi of one segment: the first t whose sample
\* is strictly nearer to pt than every sample before it in the range
RECURSIVE NearestT(_, _, _, _)
NearestT(seg, pt, lo, hi) ==
    IF lo = hi
    THEN [t |-> lo, dist |-> distance(splitSegment(seg, Rat(lo, TICKS))[1][2], pt)]
    ELSE Bind(<< NearestT(seg, pt, lo, (lo + hi) \div 2),
                 NearestT(seg, pt, ((lo + hi) \div 2) + 1, hi) >>,
              LAMBDA lr : IF RLt(lr[2].dist, lr[1].dist) THEN lr[2] ELSE lr[1])

\* the loop over path.segments from segment s on; best is <<min_dist,
\* insertion_point_index, t, segment>> so far (index None before any hit)
RECURSIVE ScanFrom(_, _, _, _)
ScanFrom(segs, pt, s, best) ==
    IF s > Len(segs) THEN best
    ELSE Bind(NearestT(segs[s], pt, 1, TICKS - 1), LAMBDA n :
            ScanFrom(segs, pt, s + 1,
                     IF RLt(n.dist, best.min_dist)
                     THEN [min_dist |-> n.dist, found |-> TRUE,
                           insertion_point_index |-> s - 1, t |-> n.t, seg |-> s]
                     ELSE best))

\* lines 224-229: the nodes of newnodes near a position that was forced
CopyForcing(newnodes, oldnodes) ==
    LET forced_positions ==
            { oldnodes[i].position : i \in { j \in 1..Len(oldnodes) : isForced(oldnodes[j]) } }
    IN Listed([i \in 1..Len(newnodes) |->
                IF \E fp \in forced_positions :
                      RLt(distance(newnodes[i].position, fp), Rat(1, 2))
                THEN set_locally_forced(newnodes[i])
                ELSE newnodes[i]])

\* insertPointInPathUnlessThere(path, pt): the path afterwards and the
\* exception raised, if any
insertPointInPathUnlessThere(path, pt) ==
    LET nodes == path.nodes
        near == { i \in 1..Len(nodes) : RLt(distance(nodes[i].position, pt), R(1)) }
    IN IF near # {}
       THEN LET i == CHOOSE j \in near : \A k \in near : j <= k
            IN [path |-> [path EXCEPT !.nodes[i] = set_locally_forced(nodes[i])],
                raised |-> ""]
       ELSE Bind(ScanFrom(segments(path), pt, 1,
                          [min_dist |-> R(MIN_DIST), found |-> FALSE,
                           insertion_point_index |-> 0, t |-> 0, seg |-> 0]),
                 LAMBDA best :
            IF ~best.found
            THEN [path |-> path, raised |-> "ValueError"]
            ELSE LET lr == splitSegment(segments(path)[best.seg], Rat(best.t, TICKS))
                     new_left_right == lr[1] \o Tail(lr[2])
                     middle == 1
                     nodes_to_insert ==
                        << GSNode(new_left_right[1], LINE),
                           set_locally_forced(GSNode(new_left_right[2], LINE)),
                           GSNode(new_left_right[3], LINE) >>
                     idx == best.insertion_point_index
                     newnodes == SubSeq(nodes, 1, idx) \o nodes_to_insert
                                 \o SubSeq(nodes, idx + middle + 2, Len(nodes))
                 IN [path |-> [path EXCEPT !.nodes = CopyForcing(newnodes, nodes)],
                     raised |-> ""])

\* ------------------------------------------------------------- splitPathsAtIntersections

\* st is [paths, raised]: the path list as mutated so far and the exception
\* that ended the call.  The insertions of one intersection:
InsertBoth(st, i1, i2, pt) ==
    Bind(insertPointInPathUnlessThere(st.paths[i1], pt), LAMBDA r1 :
        IF r1.raised # "" THEN [paths |-> st.paths, raised |-> r1.raised]
        ELSE Bind([st.paths EXCEPT ![i1] = r1.path], LAMBDA ps1 :
             Bind(insertPointInPathUnlessThere(ps1[i2], pt), LAMBDA r2 :
                IF r2.raised # "" THEN [paths |-> ps1, raised |-> r2.raised]
                ELSE [paths |-> [ps1 EXCEPT ![i2] = r2.path], raised |-> ""])))

\* for i in intersections (from the k-th on)
RECURSIVE ForIntersections(_, _, _, _, _)
ForIntersections(st, i1, i2, xs, k) ==
    IF st.raised # "" \/ k > Len(xs) THEN st
    ELSE LET i == xs[k]
         IN IF ~(RLe(R(0), i.t1) /\ RLe(i.t1, R(1))) \/ ~(RLe(R(0), i.t2) /\ RLe(i.t2, R(1)))
            THEN ForIntersections(st, i1, i2, xs, k + 1)
            ELSE Bind(InsertBoth(st, i1, i2, i.pt), LAMBDA st2 :
                    ForIntersections(st2, i1, i2, xs, k + 1))

\* for s2 in p2.segments (from the b-th on), segs2 read when the loop starts
RECURSIVE ForS2(_, _, _, _, _, _)
ForS2(st, i1, i2, s1, segs2, b) ==
    IF st.raised # "" \/ b > Len(segs2) THEN st
    ELSE Bind(ForIntersections(st, i1, i2, findIntersections(s1, segs2[b]), 1),
              LAMBDA st2 : ForS2(st2, i1, i2, s1, segs2, b + 1))

\* for s1 in p1.segments (from the a-th on), segs1 read when the loop starts
RECURSIVE ForS1(_, _, _, _, _)
ForS1(st, i1, i2, segs1, a) ==
    IF st.raised # "" \/ a > Len(segs1) THEN st
    ELSE Bind(ForS2(st, i1, i2, segs1[a], segments(st.paths[i2]), 1),
              LAMBDA st2 : ForS1(st2, i1, i2, segs1, a + 1))

\* the body of the two outer loops for the n-th pair (p1, p2) of paths x paths
RECURSIVE ForPairs(_, _)
ForPairs(st, n) ==
    LET len == Len(st.paths)
        i1 == ((n - 1) \div len) + 1
        i2 == ((n - 1) % len) + 1
    IN IF st.raised # "" \/ n > len * len THEN st
       ELSE IF i1 = i2 THEN ForPairs(st, n + 1)
       ELSE IF ~boundsIntersect(bounds(st.paths[i1]), bounds(st.paths[i2]))
            THEN ForPairs(st, n + 1)
       ELSE Bind(ForS1(st, i1, i2, segments(st.paths[i1]), 1),
                 LAMBDA st2 : ForPairs(st2, n + 1))

\* splitPathsAtIntersections(paths): the paths afterwards, and the exception
splitPathsAtIntersections(ps) == ForPairs([paths |-> ps, raised |-> ""], 1)


\* ------------------------------------------------------------- Intersection Splitter

\* a horizontal stroke from (0,0) to (la,0) and a vertical stroke on x = c
\* from (c,-d) to (c,lb-d), as <<la, c, d, lb>>: they cross at (c,0) when c
\* and d are inside.  Short strokes have a sample on the crossing, the long
\* ones (2000 units and more) have their samples more than 1.0 apart.
CrossingGeometries ==
    { <<10, 5, 5, 10>>, <<10, 3, 5, 10>>, <<10, 0, 5, 10>>, <<10, 5, 0, 10>>,
      <<10, 12, 5, 10>>, <<10, 5, 12, 10>>,
      <<4000, 1001, 5, 10>>, <<4000, 1002, 5, 10>>, <<10, 5, 2001, 4000>> }

\* the end nodes of a stroke as the designer may have left them
DesignerUserDatas == { EmptyDict, [k \in {KEY} |-> [f \in {"forced"} |-> TRUE]] }

Node(position, userData) == [position |-> position, type |-> LINE, userData |-> userData]

Horizontal(len, ud1, ud2) ==
    GSPath(<<Node(Pt(0, 0), ud1), Node(Pt(len, 0), ud2)>>, FALSE)
Vertical(c, d, len, ud1, ud2) ==
    GSPath(<<Node(Pt(c, 0 - d), ud1), Node(Pt(c, len - d), ud2)>>, FALSE)

CrossingPairs ==
    { <<Horizontal(g[1][1], g[2], g[3]), Vertical(g[1][2], g[1][3], g[1][4], g[4], g[5])>> :
        g \in CrossingGeometries \X DesignerUserDatas \X DesignerUserDatas
               \X DesignerUserDatas \X DesignerUserDatas }

InitSplitter ==
    /\ font = <<>>
    /\ results = <<>>
    /\ pc = "start"
    /\ raised = ""
    /\ paths \in CrossingPairs
    /\ effect = NoEffect
    /\ params = EmptyDict
    /\ centers = <<>>
    /\ out = <<>>

\* splitPathsAtIntersections(paths), the paths mutated in place
SplitPathsAtIntersections ==
    /\ pc = "start"
    /\ \E st \in {splitPathsAtIntersections(paths)} :
          /\ out' = st.paths
          /\ raised' = st.raised
    /\ pc' = "done"
    /\ UNCHANGED <<font, results, paths, effect, params, centers>>

NextSplitter == SplitPathsAtIntersections

SpecSplitter == InitSplitter /\ [][NextSplitter]_vars

\* where the two input strokes cross
Crossing == <<paths[2].nodes[1].position[1], R(0)>>
\* the crossing is one point interior to both strokes
CrossInterior ==
    /\ RLt(paths[1].nodes[1].position[1], Crossing[1])
    /\ RLt(Crossing[1], paths[1].nodes[2].position[1])
    /\ RLt(paths[2].nodes[1].position[2], R(0))
    /\ RLt(R(0), paths[2].nodes[2].position[2])
\* no node of either stroke is within 1.0 of the crossing
NoNodeNear ==
    \A k \in 1..2 : \A i \in 1..2 :
        ~RLt(distance(paths[k].nodes[i].position, Crossing), R(1))
\* the nodes of the k-th path after the split that the input did not have
NewNodes(k) ==
    { i \in 1..Len(out[k].nodes) :
        \A j \in 1..Len(paths[k].nodes) :
            out[k].nodes[i].position # paths[k].nodes[j].position }
\* 1/1000 of the stroke, the spacing of the samples searched
Resolution(k) == RDiv(pathLength(paths[k]), R(TICKS))

\* C8: when two paths cross at one interior point with no node within 1.0
\* of it, after splitPathsAtIntersections each path has grown by exactly one
\* node, which is locally_forced, on-curve and at the crossing within the
\* 1/1000 search resolution, for every segment length.
C8_OneNodePerPath ==
    (pc = "done" /\ CrossInterior /\ NoNodeNear) =>
        \A k \in 1..2 :
            /\ Len(out[k].nodes) = Len(paths[k].nodes) + 1
            /\ \E i \in NewNodes(k) :
                /\ hasLocallyForced(out[k].nodes[i])
                /\ out[k].nodes[i].type = LINE
                /\ RLe(distance(out[k].nodes[i].position, Crossing), Resolution(k))

\* C8 on strokes short enough that a sample falls within 1.0 of the crossing
C8_ShortStrokes ==
    (pc = "done" /\ CrossInterior /\ NoNodeNear
        /\ \A k \in 1..2 : RLt(pathLength(paths[k]), R(2 * TICKS))) =>
        \A k \in 1..2 :
            /\ Len(out[k].nodes) = Len(paths[k].nodes) + 1
            /\ \E i \in NewNodes(k) :
                /\ hasLocallyForced(out[k].nodes[i])
                /\ out[k].nodes[i].type = LINE
                /\ RLe(distance(out[k].nodes[i].position, Crossing), Resolution(k))

\* ------------------------------------------------------------- parameters

\* Dotter.params, the defaults
Dotter_params ==
    [dotSize |-> 15, dotSpacing |-> 15, flexPercent |-> 25,
     preventOverlaps |-> TRUE, splitPaths |-> FALSE, contourSource |-> "<Default>"]

\* getParams: layer override, then instance, then command line, then default
getParams(layer, instance, default_params, cmd_line_params) ==
    [paramname \in DOMAIN default_params |->
        LET layer_instance_override == KEY \o "." \o instance.name \o "." \o paramname
        IN IF layer_instance_override \in DOMAIN layer.userData
           THEN layer.userData[layer_instance_override]
           ELSE IF (KEY \o "." \o paramname) \in DOMAIN instance.userData
           THEN instance.userData[KEY \o "." \o paramname]
           ELSE IF DOMAIN cmd_line_params # {} /\ paramname \in DOMAIN cmd_line_params
           THEN cmd_line_params[paramname]
           ELSE default_params[paramname]]

\* Effect.parameter(name, layer): the cascade, one parameter of it
parameter(self, name, layer) ==
    getParams(layer, self.instance, Dotter_params, self.args)[name]

\* ------------------------------------------------------------- the host document

PREVIEW_MASTER_NAME == "PREVIEW_MASTER_NAME"
QUICK_PREVIEW_LAYER_NAME == "QUICK_PREVIEW_LAYER_NAME"

GSLayer(glyph, name, layerId, associatedMasterId, userData, shapes) ==
    [parent |-> [name |-> glyph], name |-> name, layerId |-> layerId,
     associatedMasterId |-> associatedMasterId, userData |-> userData,
     shapes |-> shapes]

IsPath(shape) == "nodes" \in DOMAIN shape

\* decomposedPaths(layer) of a layer without components: the layer's own
\* paths, which the pass then edits in place
decomposedPaths(layer) == SelectSeq(layer.shapes, IsPath)

\* glyph.layers[key]: the index in the document of the glyph's layer of
\* that id or name, 0 for None
LayerOfGlyph(layers, glyph, key) ==
    LET hits == { i \in 1..Len(layers) :
                    /\ layers[i].parent.name = glyph
                    /\ (layers[i].layerId = key \/ layers[i].name = key) }
    IN IF hits = {} THEN 0 ELSE CHOOSE i \in hits : \A j \in hits : i <= j

\* ------------------------------------------------------------- process_layer_shapes

\* the loops of lines 299-301 over the runs of every path, from run k on;
\* acc is [raised, centers]
RECURSIVE ForSubpaths(_, _, _, _)
ForSubpaths(runs, k, p, acc) ==
    IF acc.raised # "" \/ k > Len(runs) THEN acc
    ELSE Bind(findCenters(runs[k], p, acc.centers), LAMBDA r :
            ForSubpaths(runs, k + 1, p, [raised |-> r.raised, centers |-> r.centers]))

RECURSIVE Runs(_, _)
Runs(ps, k) ==
    IF k > Len(ps) THEN <<>> ELSE splitAtForcedNode(ps[k]) \o Runs(ps, k + 1)

ClearAll(ps) ==
    [k \in 1..Len(ps) |->
        [ps[k] EXCEPT !.nodes = [i \in 1..Len(ps[k].nodes) |->
                                    clear_locally_forced(ps[k].nodes[i])]]]

\* Dotter.process_layer_shapes(layer, shapes) on layer li of the document:
\* the shapes returned or the exception raised, the document's layers as the
\* pass leaves them, and the pass's locals
process_layer_shapes(self, layers, li) ==
    LET layer == layers[li]
        p == [n \in DOMAIN Dotter_params |-> parameter(self, n, layer)]
        named == IF p.contourSource # "<Default>"
                 THEN LayerOfGlyph(layers, layer.parent.name, p.contourSource)
                 ELSE 0
        si == IF named # 0 THEN named ELSE li
        before == decomposedPaths(layers[si])
    IN IF layer.parent.name = "_dot"
       THEN [raised |-> "", shapes |-> layer.shapes, layers |-> layers, source |-> 0,
             paths |-> <<>>, params |-> EmptyDict, centers |-> <<>>]
       ELSE Bind(IF p.splitPaths THEN splitPathsAtIntersections(before)
                 ELSE [paths |-> before, raised |-> ""], LAMBDA st :
            Bind([layers EXCEPT ![si].shapes = st.paths], LAMBDA edited :
              IF st.raised # ""
              THEN [raised |-> st.raised, shapes |-> <<>>, layers |-> edited, source |-> si,
                    paths |-> before, params |-> p, centers |-> <<>>]
              ELSE Bind(ForSubpaths(Runs(st.paths, 1), 1, p,
                                    [raised |-> "", centers |-> <<>>]), LAMBDA acc :
                IF acc.raised # ""
                THEN [raised |-> acc.raised, shapes |-> <<>>, layers |-> edited,
                      source |-> si, paths |-> before, params |-> p,
                      centers |-> acc.centers]
                ELSE [raised |-> "", shapes |-> centers_to_paths(self, acc.centers, p),
                      layers |-> [edited EXCEPT ![si].shapes = ClearAll(edited[si].shapes)],
                      source |-> si, paths |-> before, params |-> p,
                      centers |-> acc.centers])))

\* transform_layer(layer, effects) with Dotter the one effect of the list
transform_layer(self, layers, li) ==
    IF layers[li].name = QUICK_PREVIEW_LAYER_NAME \/ layers[li].name = PREVIEW_MASTER_NAME
    THEN [raised |-> "", shapes |-> <<>>, layers |-> layers, source |-> 0,
          paths |-> <<>>, params |-> EmptyDict, centers |-> <<>>]
    ELSE process_layer_shapes(self, layers, li)


\* ------------------------------------------------------------- transform_font

\* the instance the effect was created for, and the effect
Instance ==
    [name |-> "Regular",
     customParameters |-> [dotSize |-> 2],
     userData |-> [k \in {KEY \o ".dotSize", KEY \o ".dotSpacing"} |->
                        IF k = KEY \o ".dotSize" THEN 2 ELSE 3]]

TheDotter == [preview |-> FALSE, instance |-> Instance, args |-> [flexPercent |-> 0]]

\* layer.userData: the overrides a designer may have set on a layer
Override(name, value) == [k \in {KEY \o "." \o Instance.name \o "." \o name} |-> value]
LayerUserDatas ==
    { EmptyDict,
      Override("splitPaths", TRUE),
      Override("dotSpacing", 0),
      Override("splitPaths", TRUE) @@ Override("dotSpacing", 0) }

\* two strokes of length 10 crossing in their middles, the first node of
\* the horizontal one as the designer left it
Strokes(ud) == <<Horizontal(10, ud, EmptyDict), Vertical(5, 5, 10, EmptyDict, EmptyDict)>>

\* the layers of one glyph of the document
GlyphLayers(glyph) ==
    { <<GSLayer(glyph, "Regular", "m1", "m1", lud, Strokes(ud))>> :
        <<lud, ud>> \in LayerUserDatas \X DesignerUserDatas }
    \cup { << GSLayer(glyph, "Regular", "m1", "m1", Override("contourSource", "guide"),
                      <<Horizontal(10, EmptyDict, EmptyDict)>>),
              GSLayer(glyph, "guide", "g1", "m1", EmptyDict, Strokes(EmptyDict)) >>,
           << GSLayer(glyph, QUICK_PREVIEW_LAYER_NAME, "m1", "m1", EmptyDict,
                      Strokes(EmptyDict)) >> }

DotLayers ==
    { <<GSLayer("_dot", "Regular", "m1", "m1", EmptyDict, <<makeCircle(Pt(0, 0), R(1))>>)>> }

Fonts ==
    { [masters |-> << [id |-> "m1", name |-> "Regular"],
                      [id |-> "p1", name |-> PREVIEW_MASTER_NAME] >>,
       layers |-> a \o b] :
        <<a, b>> \in GlyphLayers("A") \X (GlyphLayers("B") \cup DotLayers) }

Position(at, layer, source) == [at |-> at, layer |-> layer, source |-> source]

Init ==
    /\ font \in Fonts
    /\ results = <<>>
    /\ pc = Position("transform_font", 0, 0)
    /\ raised = ""
    /\ paths = <<>>
    /\ effect = TheDotter
    /\ params = EmptyDict
    /\ centers = <<>>
    /\ out = <<>>

\* line 57: the preview master is dropped from font.masters
RemovePreviewMaster ==
    /\ pc.at = "transform_font"
    /\ font' = [font EXCEPT !.masters =
                    SelectSeq(font.masters, LAMBDA m : m.name # PREVIEW_MASTER_NAME)]
    /\ pc' = Position("layers", 0, 0)
    /\ UNCHANGED <<results, raised, paths, effect, params, centers, out>>

\* the layer the loops of lines 58-61 visit next
NextLayer == pc.layer + 1

\* lines 60-61 for a master layer: transform_layer, whose exception leaves
\* transform_font at once
TransformLayer ==
    /\ pc.at = "layers"
    /\ NextLayer <= Len(font.layers)
    /\ font.layers[NextLayer].layerId = font.layers[NextLayer].associatedMasterId
    /\ \E r \in {transform_layer(effect, font.layers, NextLayer)} :
          /\ font' = [font EXCEPT !.layers = r.layers]
          /\ raised' = r.raised
          /\ paths' = r.paths
          /\ params' = r.params
          /\ centers' = r.centers
          /\ out' = r.shapes
          /\ IF r.raised # ""
             THEN /\ pc' = Position("raised", NextLayer, r.source)
                  /\ UNCHANGED results
             ELSE /\ pc' = Position("layers", NextLayer, r.source)
                  /\ results' = Append(results, [layer |-> NextLayer, shapes |-> r.shapes])
    /\ UNCHANGED effect

\* line 60 for a layer that is not a master layer
SkipLayer ==
    /\ pc.at = "layers"
    /\ NextLayer <= Len(font.layers)
    /\ font.layers[NextLayer].layerId # font.layers[NextLayer].associatedMasterId
    /\ pc' = Position("layers", NextLayer, 0)
    /\ UNCHANGED <<font, results, raised, paths, effect, params, centers, out>>

\* lines 62-64: the shapes are written once every layer has been transformed
WriteShapes ==
    /\ pc.at = "layers"
    /\ NextLayer > Len(font.layers)
    /\ font' = [font EXCEPT !.layers =
                [i \in 1..Len(font.layers) |->
                    LET mine == { k \in 1..Len(results) :
                                    results[k].layer = i /\ results[k].shapes # <<>> }
                    IN IF mine = {} THEN font.layers[i]
                       ELSE [font.layers[i] EXCEPT
                                !.shapes = results[CHOOSE k \in mine : TRUE].shapes]]]
    /\ pc' = Position("postprocess_font", pc.layer, 0)
    /\ UNCHANGED <<results, raised, paths, effect, params, centers, out>>

\* Dotter.postprocess_font: the _dot glyph gets one circle per master
postprocess_font(self, f) ==
    LET size == self.instance.customParameters.dotSize
        circle == makeCircle(Pt(0, 0), Rat(size, 2))
        has(m) == LayerOfGlyph(f.layers, "_dot", m.id) # 0
        reset == [i \in 1..Len(f.layers) |->
                    IF /\ f.layers[i].parent.name = "_dot"
                       /\ \E k \in 1..Len(f.masters) :
                            LayerOfGlyph(f.layers, "_dot", f.masters[k].id) = i
                    THEN [f.layers[i] EXCEPT !.shapes = <<circle>>]
                    ELSE f.layers[i]]
        fresh == SelectSeq(f.masters, LAMBDA m : ~has(m))
    IN [f EXCEPT !.layers =
            reset \o [k \in 1..Len(fresh) |->
                        GSLayer("_dot", "", fresh[k].id, fresh[k].id, EmptyDict, <<circle>>)]]

PostprocessFont ==
    /\ pc.at = "postprocess_font"
    /\ font' = postprocess_font(effect, font)
    /\ pc' = Position("done", pc.layer, 0)
    /\ UNCHANGED <<results, raised, paths, effect, params, centers, out>>

Next ==
    \/ RemovePreviewMaster
    \/ TransformLayer
    \/ SkipLayer
    \/ WriteShapes
    \/ PostprocessFont

Spec == Init /\ [][Next]_vars

\* the pass over layer pc.layer has just ended, by return or by exception
PassEnded == pc.at \in {"layers", "raised"} /\ pc.source # 0
\* the paths the pass worked on, as it left them
Processed == decomposedPaths(font.layers[pc.source])
\* the master layers transform_font is to transform
Eligible ==
    { i \in 1..Len(font.layers) :
        /\ font.layers[i].layerId = font.layers[i].associatedMasterId
        /\ font.layers[i].parent.name # "_dot"
        /\ font.layers[i].name # QUICK_PREVIEW_LAYER_NAME }
HasOutput(i) == \E k \in 1..Len(font.layers[i].shapes) : ~IsPath(font.layers[i].shapes[k])

\* C1: after a pass of process_layer_shapes ends, by return or by an error,
\* no node of the processed layer's paths carries locally_forced.
C1_NoLocallyForcedLeft ==
    PassEnded =>
        \A k \in 1..Len(Processed) : \A i \in 1..Len(Processed[k].nodes) :
            ~hasLocallyForced(Processed[k].nodes[i])

\* C9: every node that has forced = true before a pass still has, after
\* the pass, a node of its path at its position with forced = true.
C9_ForcedKept ==
    PassEnded =>
        \A k \in 1..Len(paths) : \A i \in 1..Len(paths[k].nodes) :
            hasForced(paths[k].nodes[i]) =>
                \E j \in 1..Len(Processed[k].nodes) :
                    /\ Processed[k].nodes[j].position = paths[k].nodes[i].position
                    /\ hasForced(Processed[k].nodes[j])

\* C7: when the pass of one layer fails, the failure reaches the caller, no
\* shapes are written for that layer, and every other eligible layer has
\* been processed and has received its output shapes.
C7_OtherLayersProcessed ==
    (pc.at = "raised") =>
        /\ raised # ""
        /\ ~HasOutput(pc.layer)
        /\ \A i \in Eligible \ {pc.layer} : HasOutput(i)

\* the half of C7 the driver does keep: a failing layer gets no shapes
C7_NoPartialShapes == (pc.at = "raised") => (raised # "" /\ ~HasOutput(pc.layer))

=============================================================================
